---- MODULE Spec2Model ----
(***************************************************************************)
(* A model of ybench (src/bench.py): metadata resolution, the corpus       *)
(* provider get_data, the tokenizer client, the prompt sizer               *)
(* get_max_prompt, the sweep benchmark_requests and the generation client. *)
(*                                                                         *)
(* Texts.  In the sweep a prompt is always a prefix of the text that       *)
(* get_data builds for a seed, so it is written [seed |-> s, len |-> n]:   *)
(* the first n characters of seed s's shuffled corpus.  The corpus is      *)
(* there a sequence of record lengths.  get_data itself is modelled a      *)
(* second time on real character sequences (DataSpec), loop step by loop   *)
(* step.                                                                   *)
(*                                                                         *)
(* Optional values: None is <<>>, a present value v is <<v>>.              *)
(***************************************************************************)
EXTENDS Integers, Sequences, FiniteSets, TLC

VARIABLES
    pc,                 \* position of the process
    world,              \* the environment: server (tokenizer, lookups), hub corpus, git
    args,               \* parse_args(): the command line
    lookups,            \* outcome of each metadata GET of get_metadata
    raw_metadata,       \* get_metadata(args)
    metadata,           \* validate_metadata(raw_metadata): None or <<Metadata>>
    exit_code,          \* None, or <<code>> once exit() was called
    dataset,            \* the module global _dataset: None or <<records>>
    results,            \* benchmark_requests: results
    seed,               \* benchmark_requests: seed
    range_i,            \* position of the iterator of range(...) over max_tokens
    max_tokens,         \* benchmark_requests: max_tokens
    visited,            \* history: the max_tokens values the for loop took
    prompt_length,      \* benchmark_requests: prompt_length
    max_prompt,         \* benchmark_requests: max_prompt
    max_prompt_token_count, \* benchmark_requests: max_prompt_token_count
    prompt,             \* benchmark_requests: prompt
    prompt_tokens,      \* benchmark_requests: len(prompt_tokens)
    data_length,        \* get_max_prompt: data_length
    sz_prompt,          \* get_max_prompt: prompt
    tokens,             \* get_max_prompt: len(tokens)
    last_tok,           \* history: the tokencount exchange last made in this pass
    last_gen,           \* history: the completions exchange last made
    requested,          \* history: a tokencount or completions request was issued
    failed_req,         \* history: None or <<the completions request that failed>>
    after_fail,         \* history: requests issued after a completions request failed
    diag,               \* what the except block printed: None or <<record>>
    err,                \* the exception that left the program: None or <<name>>
    gd,                 \* DataSpec: the frame of the running get_data call
    ret,                \* DataSpec: the outcome of the last get_data call
    hist                \* DataSpec: outcome of earlier calls, by <<seed, length>>

vars == <<pc, world, args, lookups, raw_metadata, metadata, exit_code, dataset,
          results, seed, range_i, max_tokens, visited, prompt_length, max_prompt,
          max_prompt_token_count, prompt, prompt_tokens, data_length, sz_prompt,
          tokens, last_tok, last_gen, requested, failed_req, after_fail, diag, err,
          gd, ret, hist>>

None == <<>>
Some(v) == <<v>>

----------------------------------------------------------------------------
(* Bounds of the model *)

\* An arbitrary tokenizer is followed for this many inner iterations.
MaxAnySeed == 1
\* Any other tokenizer is followed for this many inner iterations.
MaxSeed == 60
\* DataSpec: the seeds and lengths get_data is called with.
MaxDataSeed == 2
MaxDataLen == 6

----------------------------------------------------------------------------
(* Arithmetic of the source *)

RECURSIVE Pow2Floor(_)
Pow2Floor(k) == IF k < 2 THEN 1 ELSE 2 * Pow2Floor(k \div 2)

\* floor((num / den) * TOKENS_TO_STRLEN_FACTOR) in IEEE double arithmetic, for
\* den a power of two.  The double nearest 4.27 is 4.27 - 3/(100 * 2^46), so
\* the product falls short of an integer k = 4.27 * num / den, and it rounds
\* to the double below k exactly when 384 * k > 427 * 2^floor(log2 k).
FloorTimesFactor(num, den) ==
    LET q == (427 * num) \div (100 * den)
        r == (427 * num) % (100 * den)
    IN  IF r = 0 /\ q > 0 /\ 384 * q > 427 * Pow2Floor(q) THEN q - 1 ELSE q

\* floor(1.1 * data_length): the double nearest 1.1 lies above 1.1 and the
\* product never rounds across an integer.
GrowLengthStuck(n) == n
GrowLength(n) == (11 * n) \div 10

Min(a, b) == IF a < b THEN a ELSE b
Max(a, b) == IF a > b THEN a ELSE b

----------------------------------------------------------------------------
(* The environment *)

\* A tokenizer of the server.  "any": every tokencount request is answered
\* with any count.  "ratio": a text of n characters has
\* bos + ceil(n * num / den) tokens.
AnyTok == [kind |-> "any", num |-> 0, den |-> 1, bos |-> 0]
RatioTok(n, d, b) == [kind |-> "ratio", num |-> n, den |-> d, bos |-> b]

\* ctx: the server's true_max_context_length; corpus: the character lengths
\* of the records of the wikitext test split as the hub delivers it (it has
\* empty records); git: whether `git rev-parse` succeeds.
\* faults: whether the server may fail a tokencount or completions request.
World(t, c, recs, g, f) ==
    [tok |-> t, ctx |-> c, corpus |-> recs, git |-> g, faults |-> f]

RatioWorlds(f) ==
    { World(RatioTok(1, 4, 1), 2048, <<0, 4000, 5000>>, TRUE, f),
      World(RatioTok(1, 1, 0), 64, <<0, 120, 180>>, TRUE, f),
      World(RatioTok(1, 5, 0), 33, <<0, 80, 120>>, FALSE, f),
      World(RatioTok(1, 4, 0), 5, <<0, 16, 20>>, TRUE, f) }

Worlds == { World(AnyTok, 8, <<0, 16, 20>>, FALSE, TRUE) } \cup RatioWorlds(TRUE)

\* Worlds in which get_max_prompt is called on its own (SizerSpec).
SizerWorlds ==
    { World(AnyTok, c, <<0, 70, 90>>, FALSE, FALSE) : c \in {33, 36} }
    \cup { World(RatioTok(1, 1, 0), 40, <<0, 80, 120>>, FALSE, FALSE) }

\* The command lines: nothing given, everything given, only --ctx-length.
ArgsChoices ==
    { [base_url |-> Some("http://localhost:5001/"), ctx_length |-> None,
       model_name |-> None, prog_name |-> None, prog_ver |-> None],
      [base_url |-> Some("http://localhost:5001/"), ctx_length |-> Some(40),
       model_name |-> Some("cli-model"), prog_name |-> Some("cli-prog"),
       prog_ver |-> Some("cli-ver")],
      [base_url |-> Some("http://localhost:5001/"), ctx_length |-> Some(40),
       model_name |-> None, prog_name |-> None, prog_ver |-> None] }

LookupKeys == {"model_name", "ctx_length", "prog_name", "prog_ver"}
\* A metadata GET: the request or .json() raises; the JSON lacks the key; or
\* the JSON holds the key.
LookupOutcomes == {"error", "nokey", "ok"}

ApiValue(w, key) ==
    CASE key = "model_name" -> "api-model"
      [] key = "ctx_length" -> w.ctx
      [] key = "prog_name"  -> "api-prog"
      [] OTHER              -> "api-ver"

----------------------------------------------------------------------------
(* Metadata *)

\* get_metadata_from_api: the bare except turns every failure into None, and
\* response.get(key) gives None for a missing key.
GetMetadataFromApi(w, key, outcome) ==
    IF outcome = "ok" THEN Some(ApiValue(w, key)) ELSE None

\* `args.x or get_metadata_from_api(...)`: the lookup is made only when the
\* command line gives nothing (the values of ArgsChoices are all truthy).
OrLookup(a, w, key, outcome) ==
    IF a[key] # None THEN a[key] ELSE GetMetadataFromApi(w, key, outcome)

\* get_metadata: the dict it returns; commit_id and dir_name are keys of it
\* only when git succeeded.
GetMetadata(a, w, api) ==
    LET base == [k \in {"base_url"} \cup LookupKeys |->
                    IF k = "base_url" THEN a.base_url ELSE OrLookup(a, w, k, api[k])]
    IN  IF w.git
        THEN [k \in DOMAIN base \cup {"commit_id", "dir_name"} |->
                 IF k = "commit_id" THEN Some("abc1234")
                 ELSE IF k = "dir_name" THEN Some("ybench")
                 ELSE base[k]]
        ELSE base

OptionalKeys == {"commit_id", "dir_name"}

FoundError(raw) == \E k \in DOMAIN raw : raw[k] = None /\ k \notin OptionalKeys

\* Metadata(**metadata)
MetadataOf(raw) ==
    [base_url   |-> raw["base_url"][1],
     ctx_length |-> raw["ctx_length"][1],
     model_name |-> raw["model_name"][1],
     prog_name  |-> raw["prog_name"][1],
     prog_ver   |-> raw["prog_ver"][1],
     commit_id  |-> IF "commit_id" \in DOMAIN raw THEN raw["commit_id"] ELSE None,
     dir_name   |-> IF "dir_name" \in DOMAIN raw THEN raw["dir_name"] ELSE None]

ValidateMetadataLax(raw) ==
    IF raw["ctx_length"] # None
    THEN Some([base_url |-> raw["base_url"][1], ctx_length |-> raw["ctx_length"][1],
               model_name |-> raw["model_name"], prog_name |-> raw["prog_name"],
               prog_ver |-> raw["prog_ver"], commit_id |-> None, dir_name |-> None])
    ELSE None
ValidateMetadata(raw) ==
    IF ~FoundError(raw) THEN Some(MetadataOf(raw)) ELSE None

Ctx == metadata[1].ctx_length


----------------------------------------------------------------------------
(* Corpus provider, on record lengths *)

\* _dataset.shuffle(seed): a permutation of the records fixed by the seed
\* (the library's generator is not modelled: a rotation by the seed).
Shuffle(records, s) ==
    [i \in 1..Len(records) |-> records[((i - 1 + s) % Len(records)) + 1]]

\* The loop of get_data from record i on, `have` characters gathered: the
\* length of data[:length], or None where the loop runs out and get_data
\* raises ValueError("Dataset is too small").
RECURSIVE GetDataFrom(_, _, _, _)
GetDataFrom(shuffled, i, have, length) ==
    IF i > Len(shuffled) THEN None
    ELSE LET d == have + shuffled[i]
         IN  IF d >= length THEN Some(Min(d, length))
             ELSE GetDataFrom(shuffled, i + 1, d, length)

GetData(records, s, length) == GetDataFrom(Shuffle(records, s), 1, 0, length)

----------------------------------------------------------------------------
(* Tokenizer client and generation client *)

\* The counts the server may give for prompt p.
TokCounts(w, p, ctx) ==
    IF w.tok.kind = "any" THEN 0..(ctx + 1)
    ELSE { w.tok.bos + ((p.len * w.tok.num + w.tok.den - 1) \div w.tok.den) }

\* What may come back on POST /api/extra/tokencount: a transport error, or a
\* response with a status and a body: {"ids": [...]}, JSON without "ids",
\* or no JSON.
TokResponses(w, p, ctx) ==
    { [kind |-> "http", status |-> 200, body |-> "ids", n |-> c] : c \in TokCounts(w, p, ctx) }
    \cup (IF w.faults
          THEN { [kind |-> "http", status |-> 500, body |-> "ids", n |-> c] :
                    c \in TokCounts(w, p, ctx) }
               \cup { [kind |-> "transport", status |-> 0, body |-> "none", n |-> 0],
                      [kind |-> "http", status |-> 500, body |-> "json", n |-> 0],
                      [kind |-> "http", status |-> 500, body |-> "html", n |-> 0] }
          ELSE {})

\* tokenize: requests.post(...).json()["ids"], the status is never looked at.
\* raises: the exception, or None when len(ids) = n is returned.
Tokenize(resp) ==
    CASE resp.kind = "transport" -> [raises |-> Some("ConnectionError"), n |-> 0]
      [] resp.body = "html"      -> [raises |-> Some("JSONDecodeError"), n |-> 0]
      [] resp.body = "json"      -> [raises |-> Some("KeyError"), n |-> 0]
      [] OTHER                   -> [raises |-> None, n |-> resp.n]

\* What may come back on POST /v1/completions: a transport error, or a
\* response with a status.
GenResponses(w) ==
    { [kind |-> "http", status |-> 200] }
    \cup (IF w.faults
          THEN { [kind |-> "transport", status |-> 0], [kind |-> "http", status |-> 304],
                 [kind |-> "http", status |-> 500] }
          ELSE {})

\* generate: requests.post raises on a transport error, raise_for_status on a
\* 4xx or 5xx status.
Generate(resp) ==
    CASE resp.kind = "transport"                  -> Some("ConnectionError")
      [] resp.status >= 400 /\ resp.status < 600  -> Some("HTTPError")
      [] OTHER                                    -> None

\* Both are subclasses of requests.RequestException.
IsRequestException(e) == e \in {"ConnectionError", "HTTPError"}

----------------------------------------------------------------------------
(* Prompt sizer *)

\* prompt[: -k]: for k = 0 this is prompt[:0], the empty string.
TrimNothing(p, k) == p
TrimPrompt(p, k) ==
    [seed |-> p.seed, len |-> IF k = 0 THEN 0 ELSE Max(0, p.len - k)]

\* len(tokens) <= max_ctx_limit, max_ctx_limit = ctx_length - ctx_length / 32
WithinLimitLoose(n, ctx) == n <= ctx
WithinLimit(n, ctx) == 32 * n <= 31 * ctx

\* max_prompt[:prompt_length]
Slice(p, length) == [seed |-> p.seed, len |-> Min(p.len, length)]

\* The admission check of the sweep: `if ... > ctx_length: break` not taken.
AdmittedPromptOnly(pt, mt, ctx) == ~(pt > ctx)
Admitted(pt, mt, ctx) == ~(pt + mt > ctx)

\* Where the except block of the sweep ends: `raise e`.
ExceptSwallowed == "iter"
ExceptNext == "raised"

SeedCap(w) == IF w.tok.kind = "any" THEN MaxAnySeed ELSE MaxSeed


----------------------------------------------------------------------------
(* The program *)

NoPrompt == None

dataVars == <<gd, ret, hist>>
metaVars == <<world, args, lookups, raw_metadata, metadata, exit_code>>
sweepVars == <<results, seed, range_i, max_tokens, visited, prompt_length,
               max_prompt, max_prompt_token_count, prompt, prompt_tokens>>
sizerVars == <<data_length, sz_prompt, tokens>>
netVars == <<last_tok, last_gen, requested, after_fail>>
failVars == <<failed_req, diag>>

InitRest ==
    /\ lookups = None
    /\ raw_metadata = None
    /\ metadata = None
    /\ exit_code = None
    /\ dataset = None
    /\ results = <<>>
    /\ seed = 0
    /\ range_i = 0
    /\ max_tokens = 0
    /\ visited = <<>>
    /\ prompt_length = 0
    /\ max_prompt = NoPrompt
    /\ max_prompt_token_count = None
    /\ prompt = NoPrompt
    /\ prompt_tokens = None
    /\ data_length = None
    /\ sz_prompt = NoPrompt
    /\ tokens = None
    /\ last_tok = None
    /\ last_gen = None
    /\ requested = FALSE
    /\ failed_req = None
    /\ after_fail = 0
    /\ diag = None
    /\ err = None
    /\ gd = None
    /\ ret = None
    /\ hist = <<>>

Init ==
    /\ pc = "get_metadata"
    /\ world \in Worlds
    /\ args \in ArgsChoices
    /\ InitRest

\* An exception leaves the program.
Raise(e) == pc' = "raised" /\ err' = Some(e)

\* The history of one tokencount exchange.
TokExchange(p, resp) ==
    /\ last_tok' = Some([prompt |-> p, kind |-> resp.kind, status |-> resp.status,
                         body |-> resp.body, n |-> resp.n])
    /\ requested' = TRUE
    /\ after_fail' = IF failed_req # None THEN after_fail + 1 ELSE after_fail
    /\ UNCHANGED last_gen

\* __main__: raw_metadata = get_metadata(args)
GetMetadataStep ==
    /\ pc = "get_metadata"
    /\ \E api \in [LookupKeys -> LookupOutcomes] :
          /\ lookups' = Some([k \in LookupKeys |->
                                 IF args[k] # None THEN "unasked" ELSE api[k]])
          /\ raw_metadata' = Some(GetMetadata(args, world, api))
    /\ pc' = "validate"
    /\ UNCHANGED <<world, args, metadata, exit_code, dataset, sweepVars, sizerVars,
                   netVars, failVars, err, dataVars>>

\* __main__: metadata = validate_metadata(raw_metadata)
ValidateStep ==
    /\ pc = "validate"
    /\ metadata' = ValidateMetadata(raw_metadata[1])
    /\ pc' = "validated"
    /\ UNCHANGED <<world, args, lookups, raw_metadata, exit_code, dataset, sweepVars,
                   sizerVars, netVars, failVars, err, dataVars>>

\* __main__: `if metadata is None: parser.print_help(); exit(1)`, else the
\* call of benchmark_requests.
MainStep ==
    /\ pc = "validated"
    /\ IF metadata = None
       THEN pc' = "exit" /\ exit_code' = Some(1)
       ELSE pc' = "bench" /\ UNCHANGED exit_code
    /\ UNCHANGED <<world, args, lookups, raw_metadata, metadata, dataset, sweepVars,
                   sizerVars, netVars, failVars, err, dataVars>>

\* benchmark_requests up to the for loop: results, seed, ctx_size_chunk and
\* the range object, which refuses a step of 0.
BenchStart ==
    /\ pc = "bench"
    /\ results' = <<>>
    /\ seed' = 0
    /\ range_i' = 0
    /\ IF Ctx \div 8 = 0
       THEN Raise("ValueError: range() arg 3 must not be zero")
       ELSE pc' = "for" /\ UNCHANGED err
    /\ UNCHANGED <<metaVars, dataset, max_tokens, visited, prompt_length, max_prompt,
                   max_prompt_token_count, prompt, prompt_tokens, sizerVars, netVars,
                   failVars, dataVars>>

\* The i-th value of range(start, stop, step), step > 0: None past the end.
RangeItemInclusive(start, stop, step, i) ==
    IF start + i * step <= stop THEN Some(start + i * step) ELSE None
RangeItem(start, stop, step, i) ==
    IF start + i * step < stop THEN Some(start + i * step) ELSE None

\* for max_tokens in range(ctx_size_chunk, ctx_length - ctx_size_chunk,
\* ctx_size_chunk): the next value and `prompt_length = 0`, or the end of the
\* loop and `return results`.
ForNext ==
    /\ pc = "for"
    /\ LET chunk == Ctx \div 8
           item == RangeItem(chunk, Ctx - chunk, chunk, range_i)
       IN  IF item # None
           THEN /\ max_tokens' = item[1]
                /\ range_i' = range_i + 1
                /\ visited' = Append(visited, item[1])
                /\ prompt_length' = 0
                /\ pc' = "iter"
           ELSE /\ pc' = "done"
                /\ UNCHANGED <<max_tokens, range_i, visited, prompt_length>>
    /\ UNCHANGED <<metaVars, dataset, results, seed, max_prompt, max_prompt_token_count,
                   prompt, prompt_tokens, sizerVars, netVars, failVars, err, dataVars>>

\* The top of `while True`: seed += 1 and the call of get_max_prompt, up to
\* its first loop.  Every variable of the loop body is written in each pass
\* before it is read (max_prompt, max_prompt_token_count, prompt,
\* prompt_tokens), so the values the last pass left in them are dropped here
\* rather than carried to their reassignment; so are the records of the last
\* tokencount and completions exchanges.
IterStart ==
    /\ pc = "iter"
    /\ seed < SeedCap(world)
    /\ seed' = seed + 1
    /\ data_length' = Some(FloorTimesFactor(Ctx, 1))
    /\ max_prompt' = NoPrompt
    /\ max_prompt_token_count' = None
    /\ prompt' = NoPrompt
    /\ prompt_tokens' = None
    /\ last_tok' = None
    /\ last_gen' = None
    /\ pc' = "grow"
    /\ UNCHANGED <<metaVars, dataset, results, range_i, max_tokens, visited,
                   prompt_length, sz_prompt, tokens, requested, after_fail, failVars,
                   err, dataVars>>

\* One pass of the first loop of get_max_prompt: get_data (which loads the
\* corpus on first use), tokenize, the test against ctx_length, the growth.
GrowStep ==
    /\ pc = "grow"
    /\ LET records == IF dataset = None THEN world.corpus ELSE dataset[1]
           got == GetData(records, seed, data_length[1])
       IN  /\ dataset' = Some(records)
           /\ IF got = None
              THEN /\ Raise("ValueError: Dataset is too small")
                   /\ UNCHANGED <<sizerVars, netVars>>
              ELSE LET p == [seed |-> seed, len |-> got[1]]
                   IN  \E resp \in TokResponses(world, p, Ctx) :
                          LET out == Tokenize(resp)
                          IN  /\ TokExchange(p, resp)
                              /\ sz_prompt' = Some(p)
                              /\ IF out.raises # None
                                 THEN /\ Raise(out.raises[1])
                                      /\ UNCHANGED <<data_length, tokens>>
                                 ELSE /\ tokens' = Some(out.n)
                                      /\ UNCHANGED err
                                      /\ IF out.n > Ctx
                                         THEN pc' = "trim" /\ UNCHANGED data_length
                                         ELSE /\ pc' = "grow"
                                              /\ data_length' =
                                                    Some(GrowLength(data_length[1]))
    /\ UNCHANGED <<metaVars, sweepVars, failVars, dataVars>>

\* One pass of the second loop of get_max_prompt: the trim, tokenize, the
\* test against max_ctx_limit and, when it passes, the return into
\* max_prompt, max_prompt_token_count (the frame of get_max_prompt is gone).
TrimStep ==
    /\ pc = "trim"
    /\ LET p == TrimPrompt(sz_prompt[1], FloorTimesFactor(Ctx, 32))
       IN  \E resp \in TokResponses(world, p, Ctx) :
              LET out == Tokenize(resp)
              IN  /\ TokExchange(p, resp)
                  /\ IF out.raises # None
                     THEN /\ Raise(out.raises[1])
                          /\ sz_prompt' = Some(p)
                          /\ UNCHANGED <<data_length, tokens, max_prompt,
                                         max_prompt_token_count>>
                     ELSE /\ UNCHANGED err
                          /\ IF WithinLimit(out.n, Ctx)
                             THEN /\ pc' = "sized"
                                  /\ max_prompt' = Some(p)
                                  /\ max_prompt_token_count' = Some(out.n)
                                  /\ data_length' = None
                                  /\ sz_prompt' = NoPrompt
                                  /\ tokens' = None
                             ELSE /\ pc' = "trim"
                                  /\ sz_prompt' = Some(p)
                                  /\ tokens' = Some(out.n)
                                  /\ UNCHANGED <<data_length, max_prompt,
                                                 max_prompt_token_count>>
    /\ UNCHANGED <<metaVars, dataset, results, seed, range_i, max_tokens, visited,
                   prompt_length, prompt, prompt_tokens, failVars, dataVars>>

\* prompt_length += ..., the slice and its tokenize.
SliceStep ==
    /\ pc = "sized"
    /\ LET pl == prompt_length + FloorTimesFactor(Ctx \div 8, 1)
           p == Slice(max_prompt[1], pl)
       IN  /\ prompt_length' = pl
           /\ prompt' = Some(p)
           /\ \E resp \in TokResponses(world, p, Ctx) :
                 LET out == Tokenize(resp)
                 IN  /\ TokExchange(p, resp)
                     /\ IF out.raises # None
                        THEN Raise(out.raises[1]) /\ UNCHANGED prompt_tokens
                        ELSE /\ prompt_tokens' = Some(out.n)
                             /\ pc' = "admit"
                             /\ UNCHANGED err
    /\ UNCHANGED <<metaVars, dataset, results, seed, range_i, max_tokens, visited,
                   max_prompt, max_prompt_token_count, sizerVars, failVars, dataVars>>

\* if len(prompt_tokens) + max_tokens > metadata.ctx_length: break
AdmitStep ==
    /\ pc = "admit"
    /\ pc' = IF Admitted(prompt_tokens[1], max_tokens, Ctx) THEN "generate" ELSE "for"
    /\ UNCHANGED <<metaVars, dataset, sweepVars, sizerVars, netVars, failVars, err,
                   dataVars>>

\* The try block: generate, the record and its append; or the except block.
GenerateStep ==
    /\ pc = "generate"
    /\ \E resp \in GenResponses(world) :
          LET raised == Generate(resp)
          IN  /\ requested' = TRUE
              /\ after_fail' = IF failed_req # None THEN after_fail + 1 ELSE after_fail
              /\ last_gen' = Some(resp)
              /\ IF raised = None
                 THEN /\ results' = Append(results,
                                       [duration |-> "elapsed",
                                        prompt_tokens |-> prompt_tokens[1],
                                        gen_tokens |-> max_tokens])
                      /\ pc' = "iter"
                      /\ UNCHANGED <<failVars, err>>
                 ELSE /\ diag' = Some([exception |-> raised[1],
                                       prompt_length |-> prompt_length,
                                       prompt |-> prompt[1],
                                       max_tokens |-> max_tokens,
                                       seed |-> seed,
                                       metadata |-> metadata[1]])
                      /\ failed_req' = Some([prompt |-> prompt[1], seed |-> seed,
                                             max_tokens |-> max_tokens])
                      /\ pc' = ExceptNext
                      /\ err' = IF ExceptNext = "raised" THEN raised ELSE err
                      /\ UNCHANGED results
    /\ UNCHANGED <<metaVars, dataset, seed, range_i, max_tokens, visited, prompt_length,
                   max_prompt, max_prompt_token_count, prompt, prompt_tokens, sizerVars,
                   last_tok, dataVars>>

Next ==
    \/ GetMetadataStep
    \/ ValidateStep
    \/ MainStep
    \/ BenchStart
    \/ ForNext
    \/ IterStart
    \/ GrowStep
    \/ TrimStep
    \/ SliceStep
    \/ AdmitStep
    \/ GenerateStep

Spec == Init /\ [][Next]_vars


----------------------------------------------------------------------------
(* The same program with a server that answers every request, run to its  *)
(* end: a sequential process takes its next step whenever it has one.      *)

InitFair ==
    /\ pc = "get_metadata"
    /\ world \in RatioWorlds(FALSE)
    /\ args \in ArgsChoices
    /\ InitRest

FairSpec == InitFair /\ [][Next]_vars /\ WF_vars(Next)

----------------------------------------------------------------------------
(* get_max_prompt(metadata, seed) called on its own, with a tokenizer that *)
(* may answer anything.                                                    *)

AllOk == [k \in LookupKeys |-> "ok"]

SizerInit ==
    /\ pc = "grow"
    /\ world \in SizerWorlds
    /\ args \in { a \in ArgsChoices : a.ctx_length = None }
    /\ lookups = Some(AllOk)
    /\ raw_metadata = Some(GetMetadata(args, world, AllOk))
    /\ metadata = ValidateMetadata(raw_metadata[1])
    /\ seed \in 0..1
    /\ data_length = Some(FloorTimesFactor(Ctx, 1))
    /\ exit_code = None
    /\ dataset = None
    /\ results = <<>>
    /\ range_i = 0
    /\ max_tokens = 0
    /\ visited = <<>>
    /\ prompt_length = 0
    /\ max_prompt = NoPrompt
    /\ max_prompt_token_count = None
    /\ prompt = NoPrompt
    /\ prompt_tokens = None
    /\ sz_prompt = NoPrompt
    /\ tokens = None
    /\ last_tok = None
    /\ last_gen = None
    /\ requested = FALSE
    /\ failed_req = None
    /\ after_fail = 0
    /\ diag = None
    /\ err = None
    /\ gd = None
    /\ ret = None
    /\ hist = <<>>

SizerNext == GrowStep \/ TrimStep

SizerSpec == SizerInit /\ [][SizerNext]_vars

----------------------------------------------------------------------------
(* get_data on character sequences, one loop pass per step *)

\* Corpora of a few short records, one of them empty.
DataCorpora ==
    { << <<"a", "b">>, <<>>, <<"c", "d", "e">> >>,
      << <<"x", "y", "z">> >> }

RECURSIVE Concat(_)
Concat(records) ==
    IF records = <<>> THEN <<>> ELSE Head(records) \o Concat(Tail(records))

\* data[:length], length >= 0
TakeAll(data, length) == data
Take(data, length) == SubSeq(data, 1, Min(length, Len(data)))

\* `if len(data) >= length`
Enough(data, length) == Len(data) >= length

DataInit ==
    /\ pc = "idle"
    /\ world \in { World(AnyTok, 8, c, FALSE, FALSE) : c \in DataCorpora }
    /\ args \in { a \in ArgsChoices : a.ctx_length = None }
    /\ InitRest

\* The call get_data(s, n) up to its loop: the corpus is loaded on first use
\* and shuffled.
DataCall ==
    /\ pc = "idle"
    /\ \E s \in 0..MaxDataSeed, n \in 0..MaxDataLen :
          LET records == IF dataset = None THEN world.corpus ELSE dataset[1]
          IN  /\ dataset' = Some(records)
              /\ gd' = Some([seed |-> s, length |-> n, shuffled |-> Shuffle(records, s),
                             i |-> 1, data |-> <<>>])
    /\ pc' = "gd_loop"
    /\ UNCHANGED <<metaVars, sweepVars, sizerVars, netVars, failVars, err, ret, hist>>

\* The outcome of a finished call: out is None when it raised.
DataDone(f, out) ==
    /\ ret' = Some([seed |-> f.seed, length |-> f.length, out |-> out,
                     again |-> hist # <<>> /\ hist[1].seed = f.seed
                               /\ hist[1].length = f.length])
    /\ hist' = IF hist = <<>> THEN ret' ELSE hist
    /\ gd' = None
    /\ pc' = "idle"

\* One pass of `for i in range(len(shuffled))`, or its end and the raise.
DataLoop ==
    /\ pc = "gd_loop"
    /\ LET f == gd[1]
       IN  IF f.i > Len(f.shuffled)
           THEN DataDone(f, None)
           ELSE LET data == f.data \o f.shuffled[f.i]
                IN  IF Enough(data, f.length)
                    THEN DataDone(f, Some(Take(data, f.length)))
                    ELSE /\ gd' = Some([f EXCEPT !.i = f.i + 1, !.data = data])
                         /\ UNCHANGED <<pc, ret, hist>>
    /\ UNCHANGED <<metaVars, dataset, sweepVars, sizerVars, netVars, failVars, err>>

DataNext == DataCall \/ DataLoop

DataSpec == DataInit /\ [][DataNext]_vars


----------------------------------------------------------------------------
(* Properties *)

RequiredKeys == {"base_url", "ctx_length", "model_name", "prog_name", "prog_ver"}

\* C1: every record of results has prompt_tokens + gen_tokens <= ctx_length,
\* and generate is only reached with a prompt whose token count, as the last
\* tokencount exchange gave it, passed the admission check with max_tokens.
C1_RecordsWithinContext ==
    /\ \A i \in 1..Len(results) :
          results[i].prompt_tokens + results[i].gen_tokens <= Ctx
    /\ pc = "generate" =>
          /\ prompt_tokens[1] + max_tokens <= Ctx
          /\ last_tok[1].prompt = prompt[1]
          /\ last_tok[1].n = prompt_tokens[1]

\* A record that fills the context exactly, from a tokenizer that answers
\* anything.
C1_Witness ==
    /\ world.tok.kind = "any"
    /\ \E i \in 1..Len(results) :
          results[i].prompt_tokens + results[i].gen_tokens = Ctx

\* C2: when get_max_prompt returns (prompt, token_count) for ctx_length > 32,
\* token_count <= ctx_length - ctx_length / 32, and token_count is the count
\* the tokenizer gave for the returned prompt, its last answer.
C2_SizedWithinLimit ==
    (pc = "sized" /\ Ctx > 32) =>
        /\ 32 * max_prompt_token_count[1] <= 32 * Ctx - Ctx
        /\ last_tok[1].prompt = max_prompt[1]
        /\ last_tok[1].n = max_prompt_token_count[1]
        /\ max_prompt_token_count[1] \in TokCounts(world, max_prompt[1], Ctx)

\* A return with the largest count the limit allows, after more than one trim.
C2_Witness ==
    /\ pc = "sized"
    /\ Ctx = 33
    /\ max_prompt_token_count[1] = 31
    /\ max_prompt[1].len < FloorTimesFactor(Ctx, 1) - FloorTimesFactor(Ctx, 32)

\* A completions exchange that generate answers with an exception.
GenFailed(g) == g.kind = "transport" \/ g.status \in 400..599

\* C3 as amended: when a completions request meets a transport error or a
\* 4xx or 5xx status, that step ends the program with the exception, appends
\* no record and prints prompt, seed and max_tokens of the failed request;
\* any other response appends the record of the request; and after a failure
\* no request is issued and results stays.
C3_GenerateFailureAborts ==
    [][ /\ pc = "generate" =>
              IF GenFailed(last_gen'[1])
              THEN /\ pc' = "raised"
                   /\ err' # None /\ IsRequestException(err'[1])
                   /\ results' = results
                   /\ diag' # None
                   /\ diag'[1].prompt = prompt[1]
                   /\ diag'[1].seed = seed
                   /\ diag'[1].max_tokens = max_tokens
                   /\ failed_req' = Some([prompt |-> prompt[1], seed |-> seed,
                                          max_tokens |-> max_tokens])
              ELSE /\ pc' = "iter"
                   /\ Len(results') = Len(results) + 1
                   /\ failed_req' = None
        /\ failed_req # None =>
              /\ after_fail' = 0
              /\ results' = results
              /\ pc' = "raised" ]_vars

\* A completions request fails with HTTP 500 after an earlier one succeeded.
C3_Witness ==
    /\ pc = "raised"
    /\ failed_req # None
    /\ last_gen = Some([kind |-> "http", status |-> 500])
    /\ err = Some("HTTPError")
    /\ Len(results) >= 1
    /\ after_fail = 0

\* C3 as claimed: a completions exchange that failed in transport or came
\* back with a status outside 2xx has ended the program, with the
\* diagnostics printed and no record of it.
C3_Non2xxAborts ==
    (last_gen # None /\ (last_gen[1].kind = "transport"
                         \/ last_gen[1].status \notin 200..299)) =>
        (pc = "raised" /\ diag # None /\ failed_req # None)

\* The values of range(chunk, ctx - chunk, chunk) in order: the multiples of
\* chunk from chunk on that are below ctx - chunk.
BucketsBelow(ctx) ==
    LET chunk == ctx \div 8
        n == CHOOSE k \in 0..8 : k * chunk < ctx - chunk /\ (k + 1) * chunk >= ctx - chunk
    IN  [i \in 1..n |-> i * chunk]

\* C4 as amended: the sweep takes max_tokens = chunk_size, 2 * chunk_size, ...
\* in increasing order up to but not including ctx_length - chunk_size; for
\* ctx_length = 2048 these are 256, 512, 768, 1024, 1280, 1536.
C4_BucketsExclusive ==
    /\ pc \in {"for", "iter", "grow", "trim", "sized", "admit", "generate", "done"} =>
          /\ Len(visited) <= Len(BucketsBelow(Ctx))
          /\ visited = SubSeq(BucketsBelow(Ctx), 1, Len(visited))
    /\ pc = "done" =>
          /\ visited = BucketsBelow(Ctx)
          /\ Ctx = 2048 => visited = <<256, 512, 768, 1024, 1280, 1536>>

\* The sweep of a context of 2048 tokens has returned.
C4_Witness ==
    /\ pc = "done"
    /\ Ctx = 2048
    /\ visited = <<256, 512, 768, 1024, 1280, 1536>>

\* C4 as claimed: the sweep takes the multiples of chunk_size up to and
\* including ctx_length - chunk_size; for 2048 they end with 1792.
C4_BucketsInclusive ==
    pc = "done" =>
        /\ visited = [i \in 1..((Ctx - Ctx \div 8) \div (Ctx \div 8)) |-> i * (Ctx \div 8)]
        /\ Ctx = 2048 => visited = <<256, 512, 768, 1024, 1280, 1536, 1792>>

\* C5: each looked-up field is the command line's value, else the API's, else
\* absent (a failed lookup is no error); validate_metadata gives None exactly
\* when a required field is absent; then the process exits with code 1 and
\* has issued no tokencount or completions request, otherwise the sweep is
\* entered with the Metadata built from the fields.
C5_MetadataGate ==
    /\ raw_metadata # None =>
          /\ err = None \/ pc \notin {"validate", "validated", "exit"}
          /\ \A k \in LookupKeys :
                raw_metadata[1][k] =
                    IF args[k] # None THEN args[k]
                    ELSE IF lookups[1][k] = "ok" THEN Some(ApiValue(world, k))
                    ELSE None
    /\ pc \notin {"get_metadata", "validate"} =>
          IF \E k \in RequiredKeys : raw_metadata[1][k] = None
          THEN metadata = None
          ELSE /\ metadata # None
               /\ \A k \in RequiredKeys : metadata[1][k] = raw_metadata[1][k][1]
               /\ metadata[1].commit_id = (IF world.git THEN Some("abc1234") ELSE None)
    /\ pc \notin {"get_metadata", "validate", "validated"} =>
          IF metadata = None
          THEN pc = "exit" /\ exit_code = Some(1) /\ ~requested
          ELSE pc # "exit" /\ exit_code = None
    /\ requested => metadata # None

\* The process has exited because the version lookup failed and the command
\* line gave no program name.
C5_Witness ==
    /\ pc = "exit"
    /\ exit_code = Some(1)
    /\ lookups[1]["prog_name"] = "error"
    /\ raw_metadata[1]["prog_name"] = None
    /\ raw_metadata[1]["ctx_length"] # None

\* C6: a finished call get_data(seed, N) returned the first N characters of
\* the concatenation of the records in the seed's shuffled order, N characters
\* long, when the corpus has at least N characters, and raised otherwise; a
\* repeated call with the same seed and N gave what the first gave.
C6_GetDataPrefix ==
    (pc = "idle" /\ ret # None) =>
        LET r == ret[1]
            full == Concat(Shuffle(dataset[1], r.seed))
        IN  /\ IF Len(full) >= r.length
               THEN /\ r.out = Some(SubSeq(full, 1, r.length))
                    /\ Len(r.out[1]) = r.length
               ELSE r.out = None
            /\ r.again => r.out = hist[1].out

\* A repeated call that had to join two records and cut the second.
C6_Witness ==
    /\ pc = "idle"
    /\ ret # None
    /\ ret[1].again
    /\ ret[1].out = Some(<<"c", "d", "e", "a">>)


Exhausted == pc = "raised" /\ err = Some("ValueError: Dataset is too small")

\* C7 as amended: the growth phase ends after finitely many passes, either
\* with a token count above ctx_length or with get_data raising, the corpus
\* being shorter than the estimate.
C7_GrowthEnds ==
    (pc = "grow") ~> ((pc = "trim" /\ tokens[1] > Ctx) \/ Exhausted)

\* The growth phase has ended above ctx_length after the estimate was raised.
C7_Witness ==
    /\ pc = "trim"
    /\ tokens[1] > Ctx
    /\ data_length[1] > FloorTimesFactor(Ctx, 1)

\* C7 as claimed: the growth phase always ends with a text of more than
\* ctx_length tokens, so it never ends with the corpus exhausted.
C7_GrowthAlwaysExceeds == ~Exhausted

C9_TokenizeFailureFatal ==
    (last_tok # None /\ (last_tok[1].kind = "transport"
                         \/ last_tok[1].status \notin 200..299)) =>
        (pc = "raised" /\ diag # None)

\* Every maximal prompt has more tokens than the bucket leaves free.
PromptFillsBucket ==
    pc = "sized" => max_prompt_token_count[1] + max_tokens > Ctx

====
